---- MODULE Spec2Model ----
(***************************************************************************)
(* A model of the plan-to-graph conversion of src/ppt/tf_wrapper.py:       *)
(* setup_graph (Node Builder), tf_makegraph (Edge Resolver and validator), *)
(* add_vpc_implied_relations (Implied-Relation Inferencer) and the offline *)
(* loader tf_from_offline.                                                 *)
(*                                                                         *)
(* A Python string is a sequence of tokens (each token a piece of text     *)
(* that the program never looks inside of): "aws_x.a~1" is                 *)
(* <<"aws_", "x", ".", "a", "~", "1">>.  A dict is a function together     *)
(* with, where the code depends on it, the sequence of its keys in         *)
(* insertion order.                                                        *)
(***************************************************************************)
EXTENDS Integers, Sequences, FiniteSets, TLC

VARIABLES
    pc,                   \* position in the running call
    outcome,              \* "none", "returned", an exception name, or "exit"
    caller,               \* which entry point runs setup_graph
    source,               \* what the run was given: "plan", "planfile" or "statefile"
    earlier_runs,         \* the graphs the earlier calls on this tfdata returned
    plan_input,           \* the resource_changes as loaded, never mutated
    statefile,            \* the persisted state document of the offline path
    tf_resources_created, \* tfdata["tf_resources_created"]
    tfgraph,              \* tfdata["tfgraph"]
    graphdict,            \* tfdata["graphdict"]: key -> list of keys
    graph_keys,           \* insertion order of graphdict's keys
    meta_data,            \* tfdata["meta_data"]: key -> attribute mapping
    node_list,            \* tfdata["node_list"]
    setup_i,              \* setup_graph: records consumed so far
    gvid_table,           \* tf_makegraph: label of each low-level id
    iter_nodes,           \* tf_makegraph: the keys of dict(graphdict) being iterated
    ni,                   \* tf_makegraph: position in iter_nodes
    node,                 \* tf_makegraph: the loop variable node
    node_id,              \* tf_makegraph: id looked up for the current node
    ei,                   \* tf_makegraph: edges consumed for the current node
    exit_status,          \* the status the process exited with, -1 while it runs
    secret_store,         \* Secrets Manager: secret id -> the secret stored there
    domain_role,          \* the caller's role is a Studio domain execution role
    api_call,             \* the last call of a secrets manager API and its result
    clients,              \* the put_connection calls in progress, one per client
    ecs_clusters,         \* ECS: the clusters with their services and running tasks
    now,                  \* the clock, in hours
    handler_pc,           \* lambda_handler: where it is
    cluster_i,            \* lambda_handler: clusters done
    task_i,               \* lambda_handler: tasks of the current cluster done
    last_deploy_time,     \* lambda_handler: of the current cluster
    stop_calls,           \* the stop_task calls made, in order
    response              \* what lambda_handler returned

\* the state of the secrets managers: the secrets kept, and the last call
secrets == <<secret_store, domain_role, api_call, clients>>

\* the state of ECS and of the task reaper
reaper == <<ecs_clusters, now, handler_pc, cluster_i, task_i, last_deploy_time,
            stop_calls, response>>

cloud == <<secrets, reaper>>

\* the state of the graph builder (tf_wrapper)
tfdata == <<pc, outcome, caller, source, earlier_runs, plan_input, statefile,
            tf_resources_created, tfgraph, graphdict, graph_keys, meta_data,
            node_list, setup_i, gvid_table, iter_nodes, ni, node, node_id, ei,
            exit_status>>

vars == <<tfdata, cloud>>

----------------------------------------------------------------------------
(* Bounds of the model *)

MaxRecords == 2      \* resource changes of a plan (node builder runs)
MaxIndex == 1        \* count indices 0..MaxIndex (and one two-digit ordinal)
MaxNodes == 3        \* resource changes of a plan (graph construction runs)
MaxObjects == 3      \* objects of the low-level graph
MaxEdges == 2        \* edges of the low-level graph
MaxResources == 2    \* resources of a state document
MaxInstances == 2    \* instances of a resource of a state document
MaxCalls == 2        \* calls of tf_makegraph on one tfdata
MaxClusters == 2     \* ECS clusters
MaxTasks == 2        \* running tasks of a cluster
MaxHour == 5         \* the last hour of the clock

----------------------------------------------------------------------------
(* Strings *)

Digit == <<"0", "1", "2", "3", "4", "5", "6", "7", "8", "9">>

IsDigit(t) == \E d \in 1..10 : Digit[d] = t

\* str(n) for n >= 0
RECURSIVE str_int(_)
str_int(n) ==
    IF n < 10 THEN <<Digit[n + 1]>>
    ELSE str_int(n \div 10) \o <<Digit[(n % 10) + 1]>>

\* k.startswith(p)
startswith(k, p) == Len(p) <= Len(k) /\ SubSeq(k, 1, Len(p)) = p

\* sub in s
contains(s, sub) ==
    \E i \in 1..(Len(s) + 1) :
        i + Len(sub) - 1 <= Len(s) /\ SubSeq(s, i, i + Len(sub) - 1) = sub

\* position of the first occurrence of sub in s, 0 when there is none
find(s, sub) ==
    IF contains(s, sub)
    THEN CHOOSE i \in 1..(Len(s) + 1) :
            /\ i + Len(sub) - 1 <= Len(s)
            /\ SubSeq(s, i, i + Len(sub) - 1) = sub
            /\ \A j \in 1..(i - 1) : SubSeq(s, j, j + Len(sub) - 1) # sub
    ELSE 0

\* s.split(sep)[0]
split_first(s, sep) ==
    IF find(s, sep) = 0 THEN s ELSE SubSeq(s, 1, find(s, sep) - 1)

\* what follows the first occurrence of sep in s (s contains sep)
after_first(s, sep) == SubSeq(s, find(s, sep) + Len(sep), Len(s))

\* s.split(sep)[1] (s contains sep)
split_second(s, sep) == split_first(after_first(s, sep), sep)

\* list.index(x), 0-based; -1 stands for ValueError
list_index(l, x) ==
    IF \E i \in 1..Len(l) : l[i] = x
    THEN (CHOOSE i \in 1..Len(l) : l[i] = x /\ \A j \in 1..(i - 1) : l[j] # x) - 1
    ELSE -1

\* mutant of fromkeys_list: the list is returned as it is
fromkeys_list_keep(l) == l

\* list(dict.fromkeys(l)): the first occurrence of each element, in order
RECURSIVE fromkeys_list(_)
fromkeys_list(l) ==
    IF l = <<>> THEN <<>>
    ELSE LET front == fromkeys_list(SubSeq(l, 1, Len(l) - 1))
             last == l[Len(l)]
         IN IF \E i \in 1..Len(front) : front[i] = last
            THEN front ELSE Append(front, last)

\* d.update(e)
dict_update(d, e) ==
    [k \in DOMAIN d \cup DOMAIN e |-> IF k \in DOMAIN e THEN e[k] ELSE d[k]]

\* d[k] = v
dict_set(d, k, v) ==
    [x \in DOMAIN d \cup {k} |-> IF x = k THEN v ELSE d[x]]

EmptyDict == [k \in {} |-> <<>>]

Range(l) == {l[i] : i \in 1..Len(l)}

MODULE_DOT == <<"module", ".">>

----------------------------------------------------------------------------
(* Values *)

\* An attribute value: an integer, a string, a CIDR text or a placeholder.
IntVal(n) == [kind |-> "int", s |-> <<>>, n |-> <<n>>]
StrVal(s) == [kind |-> "str", s |-> s, n |-> <<>>]
CidrVal(a, b, c, d, len) == [kind |-> "cidr", s |-> <<>>, n |-> <<a, b, c, d, len>>]
TrueVal == [kind |-> "bool", s |-> <<>>, n |-> <<1>>]

\* The "index" field of a resource change: absent, None, an int or a string.
IndexAbsent == [kind |-> "absent", num |-> 0, key |-> <<>>]
IndexNone == [kind |-> "none", num |-> 0, key |-> <<>>]
IndexInt(i) == [kind |-> "int", num |-> i, key |-> <<>>]
IndexStr(k) == [kind |-> "str", num |-> 0, key |-> k]

\* A resource change record. module_address <<>> stands for None.
ResourceChange(address, mode, index, module_address, after, after_unknown,
               after_sensitive) ==
    [address |-> address, mode |-> mode, index |-> index,
     module_address |-> module_address, after |-> after,
     after_unknown |-> after_unknown, after_sensitive |-> after_sensitive]

----------------------------------------------------------------------------
(* Helpers of modules.helpers and modules.cloud_config *)

\* helpers.remove_brackets_and_numbers: every "[<digits>]" group is removed
RECURSIVE remove_brackets_and_numbers(_)
remove_brackets_and_numbers(s) ==
    IF s = <<>> THEN <<>>
    ELSE IF s[1] = "[" /\ \E c \in 3..Len(s) :
                             /\ s[c] = "]"
                             /\ \A d \in 2..(c - 1) : IsDigit(s[d])
         THEN LET c == CHOOSE c \in 3..Len(s) :
                          s[c] = "]" /\ \A d \in 2..(c - 1) : IsDigit(s[d])
              IN remove_brackets_and_numbers(SubSeq(s, c + 1, Len(s)))
         ELSE <<s[1]>> \o remove_brackets_and_numbers(SubSeq(s, 2, Len(s)))

\* the dot-separated segments of s
RECURSIVE split_dots(_)
split_dots(s) ==
    IF find(s, <<".">>) = 0 THEN <<s>>
    ELSE <<split_first(s, <<".">>)>> \o split_dots(after_first(s, <<".">>))

\* helpers.get_no_module_name: the last two dot-separated segments of a
\* module-qualified key, any other key unchanged
get_no_module_name(k) ==
    IF contains(k, MODULE_DOT)
    THEN LET segs == split_dots(k)
         IN segs[Len(segs) - 1] \o <<".">> \o segs[Len(segs)]
    ELSE k

\* helpers.list_of_dictkeys_containing: the keys that contain the keyword
list_of_dictkeys_containing(keys, keyword) ==
    SelectSeq(keys, LAMBDA k : contains(k, keyword))

\* cloud_config.AWS_REVERSE_ARROW_LIST: the resource types whose edges are
\* inserted in the opposite direction
REVERSE_ARROW_LIST == {<<"aws_", "lb">>}

----------------------------------------------------------------------------
(* ipaddr.IPNetwork and overlaps, on IPv4 networks a.b.c.d/len *)

RECURSIVE pow2(_)
pow2(n) == IF n = 0 THEN 1 ELSE 2 * pow2(n - 1)

\* An address is the pair <<a*256 + b, c*256 + d>>, ordered lexicographically.
addr_leq(x, y) == x[1] < y[1] \/ (x[1] = y[1] /\ x[2] <= y[2])

\* the first address of the network of a CIDR value
network_of(v) ==
    LET hi == v.n[1] * 256 + v.n[2]
        lo == v.n[3] * 256 + v.n[4]
        len == v.n[5]
    IN IF len <= 16
       THEN <<hi - (hi % pow2(16 - len)), 0>>
       ELSE <<hi, lo - (lo % pow2(32 - len))>>

\* the last address of the network of a CIDR value
broadcast_of(v) ==
    LET net == network_of(v)
        len == v.n[5]
    IN IF len <= 16
       THEN <<net[1] + pow2(16 - len) - 1, 65535>>
       ELSE <<net[1], net[2] + pow2(32 - len) - 1>>

addr_in(x, v) == addr_leq(network_of(v), x) /\ addr_leq(x, broadcast_of(v))

\* mutant of overlaps: only a network that lies wholly inside the other
overlaps_within(a, b) == addr_in(network_of(a), b) /\ addr_in(broadcast_of(a), b)

\* a.overlaps(b)
overlaps(a, b) ==
    \/ addr_in(network_of(a), b)
    \/ addr_in(broadcast_of(a), b)
    \/ addr_in(network_of(b), a)
    \/ addr_in(broadcast_of(b), a)

----------------------------------------------------------------------------
(* add_vpc_implied_relations *)

AWS_VPC_DOT == <<"aws_", "vpc", ".">>
AWS_SUBNET_DOT == <<"aws_", "subnet", ".">>

vpc_resources(keys) ==
    SelectSeq(keys, LAMBDA k : startswith(get_no_module_name(k), AWS_VPC_DOT))

subnet_resources(keys) ==
    SelectSeq(keys, LAMBDA k : startswith(get_no_module_name(k), AWS_SUBNET_DOT))

\* "" when tfdata["meta_data"][k]["cidr_block"] makes a network, else the
\* exception its lookup or its parsing raises
cidr_error(md, k) ==
    IF k \notin DOMAIN md \/ "cidr_block" \notin DOMAIN md[k] THEN "KeyError"
    ELSE IF md[k]["cidr_block"].kind = "str" THEN "ValueError"
    ELSE ""

\* ipaddr.IPNetwork(value): a text a.b.c.d/len is that network, an integer
\* (True is the integer 1) is the single address of that number
ip_network(v) ==
    IF v.kind = "cidr" THEN v
    ELSE CidrVal(0, 0, v.n[1] \div 256, v.n[1] % 256, 32)

\* the (vpc, subnet) pairs in the order the nested loops visit them
RECURSIVE pairs_of(_, _)
pairs_of(vpcs, subnets) ==
    IF vpcs = <<>> THEN <<>>
    ELSE [j \in 1..Len(subnets) |-> <<vpcs[1], subnets[j]>>]
         \o pairs_of(Tail(vpcs), subnets)

\* the nested loops over the first n pairs: the graph reached and the
\* exception raised on the way ("" for none)
RECURSIVE implied_loop(_, _, _, _)
implied_loop(g, md, pairs, n) ==
    IF n = 0 THEN [g |-> g, err |-> ""]
    ELSE LET before == implied_loop(g, md, pairs, n - 1)
             vpc == pairs[n][1]
             subnet == pairs[n][2]
         IN IF before.err # "" THEN before
            ELSE IF cidr_error(md, vpc) # ""
            THEN [g |-> before.g, err |-> cidr_error(md, vpc)]
            ELSE IF cidr_error(md, subnet) # ""
            THEN [g |-> before.g, err |-> cidr_error(md, subnet)]
            ELSE IF overlaps(ip_network(md[subnet]["cidr_block"]),
                             ip_network(md[vpc]["cidr_block"]))
            THEN [g |-> [before.g EXCEPT ![vpc] = Append(@, subnet)], err |-> ""]
            ELSE before

AddVpcImpliedRelations ==
    /\ pc = "implied"
    /\ LET vpcs == vpc_resources(graph_keys)
           subnets == subnet_resources(graph_keys)
           pairs == pairs_of(vpcs, subnets)
           res == implied_loop(graphdict, meta_data, pairs, Len(pairs))
       IN /\ graphdict' = res.g
          /\ IF res.err # ""
             THEN pc' = "crashed" /\ outcome' = res.err
             ELSE pc' = "validate" /\ UNCHANGED outcome
    /\ UNCHANGED <<caller, source, earlier_runs, cloud, plan_input, statefile, tf_resources_created,
                   tfgraph, graph_keys, meta_data, node_list, setup_i, gvid_table,
                   iter_nodes, ni, node, node_id, ei, exit_status>>

----------------------------------------------------------------------------
(* setup_graph *)

\* the index a record's node key cannot be built from: "[" + None + "]"
index_type_error(object) == object.index.kind = "none"

\* mutant of node_key: the count suffix is the 0-based index itself
node_key_zero_based(object) ==
    IF object.index.kind = "absent" THEN object.address
    ELSE IF object.index.kind = "int"
         THEN object.address \o <<"~">> \o str_int(object.index.num)
         ELSE object.address \o <<"[">> \o object.index.key \o <<"]">>

\* the node key of a managed record
node_key(object) ==
    IF object.index.kind = "absent" THEN object.address
    ELSE IF object.index.kind = "int"
         THEN object.address \o <<"~">> \o str_int(object.index.num + 1)
         ELSE object.address \o <<"[">> \o object.index.key \o <<"]">>

\* mutant of overlay: after_sensitive is applied before after_unknown
overlay_swapped(object) ==
    dict_update(dict_update(object.after, object.after_sensitive),
                object.after_unknown)

\* after, overlaid with after_unknown, then with after_sensitive
overlay(object) ==
    dict_update(dict_update(object.after, object.after_unknown),
                object.after_sensitive)

has_module(object) == contains(object.address, MODULE_DOT)

\* module_address.split("module.")[1] fails on None and on a text without "module."
module_error(object) ==
    has_module(object) /\ ~contains(object.module_address, MODULE_DOT)

\* the details stored for a managed record
details_of(object) ==
    IF has_module(object)
    THEN dict_set(overlay(object), "module",
                  StrVal(split_second(object.module_address, MODULE_DOT)))
    ELSE overlay(object)

\* mutant of SetupGraphBegin: the result structures of an earlier call are
\* kept
SetupGraphBegin_Keep ==
    /\ pc = "setup_graph"
    /\ setup_i' = 0
    /\ pc' = "setup_loop"
    /\ UNCHANGED <<outcome, caller, source, earlier_runs, cloud, plan_input, statefile,
                   tf_resources_created, tfgraph, graphdict, graph_keys,
                   meta_data, node_list, gvid_table, iter_nodes, ni,
                   node, node_id, ei, exit_status>>

\* tf_makegraph and the callers of setup_graph enter here: the result
\* structures are created empty
SetupGraphBegin ==
    /\ pc = "setup_graph"
    /\ graphdict' = EmptyDict
    /\ graph_keys' = <<>>
    /\ meta_data' = EmptyDict
    /\ node_list' = <<>>
    /\ setup_i' = 0
    /\ pc' = "setup_loop"
    /\ UNCHANGED <<outcome, caller, source, earlier_runs, cloud, plan_input, statefile,
                   tf_resources_created, tfgraph, gvid_table, iter_nodes, ni,
                   node, node_id, ei, exit_status>>

\* one iteration of the loop over tf_resources_created
SetupRecord ==
    /\ pc = "setup_loop"
    /\ setup_i < Len(tf_resources_created)
    /\ LET object == tf_resources_created[setup_i + 1]
           key == node_key(object)
       IN IF object.mode # "managed"
          THEN /\ setup_i' = setup_i + 1
               /\ UNCHANGED <<pc, outcome, tf_resources_created, graphdict,
                              graph_keys, meta_data, node_list>>
          ELSE IF index_type_error(object)
          THEN /\ pc' = "crashed"
               /\ outcome' = "TypeError"
               /\ UNCHANGED <<setup_i, tf_resources_created, graphdict,
                              graph_keys, meta_data, node_list>>
          ELSE /\ graphdict' = dict_set(graphdict, key, <<>>)
               /\ graph_keys' = IF key \in DOMAIN graphdict THEN graph_keys
                                ELSE Append(graph_keys, key)
               /\ node_list' = Append(node_list, key)
               /\ IF module_error(object)
                  THEN \* details already hold the overlays when split fails
                       /\ tf_resources_created' =
                            [tf_resources_created EXCEPT
                               ![setup_i + 1].after = overlay(object)]
                       /\ pc' = "crashed"
                       /\ outcome' = IF object.module_address = <<>>
                                     THEN "AttributeError" ELSE "IndexError"
                       /\ UNCHANGED <<setup_i, meta_data>>
                  ELSE /\ tf_resources_created' =
                            [tf_resources_created EXCEPT
                               ![setup_i + 1].after = details_of(object)]
                       /\ meta_data' = dict_set(meta_data, key, details_of(object))
                       /\ setup_i' = setup_i + 1
                       /\ UNCHANGED <<pc, outcome>>
    /\ UNCHANGED <<caller, source, earlier_runs, cloud, plan_input, statefile, tfgraph, gvid_table,
                   iter_nodes, ni, node, node_id, ei, exit_status>>

\* mutant of SetupGraphReturn: the implied relations are added before the
\* offline caller gets the graph
SetupGraphReturn_Implied ==
    /\ pc = "setup_loop"
    /\ setup_i = Len(tf_resources_created)
    /\ node_list' = fromkeys_list(node_list)
    /\ pc' = IF caller = "tf_makegraph" THEN "gvid_table" ELSE "done"
    /\ outcome' = IF caller = "tf_makegraph" THEN outcome ELSE "returned"
    /\ graphdict' =
         IF caller = "tf_makegraph" THEN graphdict
         ELSE LET pairs == pairs_of(vpc_resources(graph_keys),
                                    subnet_resources(graph_keys))
              IN implied_loop(graphdict, meta_data, pairs, Len(pairs)).g
    /\ UNCHANGED <<caller, source, earlier_runs, cloud, plan_input, statefile, tf_resources_created,
                   tfgraph, graph_keys, meta_data, setup_i, gvid_table,
                   iter_nodes, ni, node, node_id, ei, exit_status>>

\* after the loop: node_list is de-duplicated and setup_graph returns
SetupGraphReturn ==
    /\ pc = "setup_loop"
    /\ setup_i = Len(tf_resources_created)
    /\ node_list' = fromkeys_list(node_list)
    /\ pc' = IF caller = "tf_makegraph" THEN "gvid_table" ELSE "done"
    /\ outcome' = IF caller = "tf_makegraph" THEN outcome ELSE "returned"
    /\ UNCHANGED <<caller, source, earlier_runs, cloud, plan_input, statefile, tf_resources_created,
                   tfgraph, graphdict, graph_keys, meta_data, setup_i, gvid_table,
                   iter_nodes, ni, node, node_id, ei, exit_status>>

----------------------------------------------------------------------------
(* tf_makegraph *)

\* the loop that fills gvid_table: append "" and store the label at _gvid;
\* <<"IndexError">> when _gvid is past the end of the table
RECURSIVE build_gvid_table(_, _)
build_gvid_table(objects, n) ==
    IF n = 0 THEN <<>>
    ELSE LET before == build_gvid_table(objects, n - 1)
             item == objects[n]
         IN IF before = <<"IndexError">> \/ item.gvid > Len(before)
            THEN <<"IndexError">>
            ELSE [Append(before, <<>>) EXCEPT ![item.gvid + 1] = item.label]

\* the keys of graphdict, in order, that start with a label
matched_keys(keys, label) == SelectSeq(keys, LAMBDA k : startswith(k, label))

\* conn after the substitution of a single prefix match
edge_target(g, keys, label) ==
    IF label \notin DOMAIN g /\ Len(matched_keys(keys, label)) = 1
    THEN matched_keys(keys, label)[1]
    ELSE label

\* node after the substitution of a single prefix match of the head label
edge_source(g, keys, n, label) ==
    IF n \notin DOMAIN g /\ Len(matched_keys(keys, label)) = 1
    THEN matched_keys(keys, label)[1]
    ELSE n

\* mutant of is_reversed: no type is reversed
is_reversed_never(label) == FALSE

\* conn_type in REVERSE_ARROW_LIST
is_reversed(label) == split_first(label, <<".">>) \in REVERSE_ARROW_LIST

\* where the node loop goes after the node at position n (0-based count)
after_node(n) == IF n = Len(iter_nodes) THEN "implied" ELSE "node_loop"

\* tf_makegraph is entered: it calls setup_graph first
TfMakegraph ==
    /\ pc = "tf_makegraph"
    /\ caller' = "tf_makegraph"
    /\ pc' = "setup_graph"
    /\ UNCHANGED <<outcome, source, earlier_runs, cloud, plan_input, statefile, tf_resources_created,
                   tfgraph, graphdict, graph_keys, meta_data, node_list, setup_i,
                   gvid_table, iter_nodes, ni, node, node_id, ei, exit_status>>

\* the lookup table of labels is built and the loop over dict(graphdict) starts
BuildGvidTable ==
    /\ pc = "gvid_table"
    /\ LET table == build_gvid_table(tfgraph.objects, Len(tfgraph.objects))
       IN IF table = <<"IndexError">>
          THEN /\ pc' = "crashed"
               /\ outcome' = "IndexError"
               /\ UNCHANGED <<gvid_table, iter_nodes, ni>>
          ELSE /\ gvid_table' = table
               /\ iter_nodes' = graph_keys
               /\ ni' = 0
               /\ pc' = IF graph_keys = <<>> THEN "implied" ELSE "node_loop"
               /\ UNCHANGED outcome
    /\ UNCHANGED <<caller, source, earlier_runs, cloud, plan_input, statefile, tf_resources_created,
                   tfgraph, graphdict, graph_keys, meta_data, node_list, setup_i,
                   node, node_id, ei, exit_status>>

\* the head of one iteration of the node loop: the id of the node's base label
NodeLookup ==
    /\ pc = "node_loop"
    /\ ni < Len(iter_nodes)
    /\ LET n == iter_nodes[ni + 1]
           nodename == split_first(n, <<"~">>)
           normalized == IF list_index(gvid_table, nodename) >= 0 THEN nodename
                         ELSE remove_brackets_and_numbers(nodename)
           id == list_index(gvid_table, normalized)
       IN /\ node' = n
          /\ IF id < 0
             THEN /\ pc' = "crashed"
                  /\ outcome' = "ValueError"
                  /\ UNCHANGED <<node_id, ni, ei>>
             ELSE /\ node_id' = id
                  /\ ei' = 0
                  /\ IF tfgraph.edges = <<>>
                     THEN ni' = ni + 1 /\ pc' = after_node(ni + 1)
                     ELSE ni' = ni /\ pc' = "edge_loop"
                  /\ UNCHANGED outcome
    /\ UNCHANGED <<caller, source, earlier_runs, cloud, plan_input, statefile, tf_resources_created,
                   tfgraph, graphdict, graph_keys, meta_data, node_list, setup_i,
                   gvid_table, iter_nodes, exit_status>>

\* the edge under the loop variable connection
cur_edge == tfgraph.edges[ei + 1]
tail_label == gvid_table[cur_edge.tail + 1]
head_label == gvid_table[cur_edge.head + 1]

\* the condition under which the edge is taken for the current node
edge_taken ==
    /\ node_id = cur_edge.head
    /\ Len(matched_keys(graph_keys, tail_label)) > 0

\* one iteration of the loop over the low-level edges
EdgeStep ==
    /\ pc = "edge_loop"
    /\ ei < Len(tfgraph.edges)
    /\ LET src == edge_source(graphdict, graph_keys, node, head_label)
           conn == edge_target(graphdict, graph_keys, tail_label)
           last == (ei + 1 = Len(tfgraph.edges))
       IN IF ~edge_taken
          THEN /\ UNCHANGED <<graphdict, graph_keys, node, outcome>>
               /\ ei' = ei + 1
               /\ ni' = IF last THEN ni + 1 ELSE ni
               /\ pc' = IF last THEN after_node(ni + 1) ELSE pc
          ELSE IF is_reversed(tail_label)
          THEN /\ graphdict' =
                    [k \in DOMAIN graphdict \cup {conn} |->
                        IF k = conn
                        THEN Append(IF conn \in DOMAIN graphdict
                                    THEN graphdict[conn] ELSE <<>>, src)
                        ELSE graphdict[k]]
               /\ graph_keys' = IF conn \in DOMAIN graphdict THEN graph_keys
                                ELSE Append(graph_keys, conn)
               /\ node' = src
               /\ ei' = ei + 1
               /\ ni' = IF last THEN ni + 1 ELSE ni
               /\ pc' = IF last THEN after_node(ni + 1) ELSE pc
               /\ UNCHANGED outcome
          ELSE IF src \notin DOMAIN graphdict
          THEN /\ pc' = "crashed"
               /\ outcome' = "KeyError"
               /\ node' = src
               /\ UNCHANGED <<graphdict, graph_keys, ei, ni>>
          ELSE /\ graphdict' = [graphdict EXCEPT ![src] = Append(@, conn)]
               /\ node' = src
               /\ ei' = ei + 1
               /\ ni' = IF last THEN ni + 1 ELSE ni
               /\ pc' = IF last THEN after_node(ni + 1) ELSE pc
               /\ UNCHANGED <<graph_keys, outcome>>
    /\ UNCHANGED <<caller, source, earlier_runs, cloud, plan_input, statefile, tf_resources_created,
                   tfgraph, meta_data, node_list, setup_i, gvid_table, iter_nodes,
                   node_id, exit_status>>

----------------------------------------------------------------------------
(* the validation that ends tf_makegraph *)

AWS_KEYWORD == <<"aws_">>

Validate ==
    /\ pc = "validate"
    /\ IF Len(list_of_dictkeys_containing(graph_keys, AWS_KEYWORD)) = 0
       THEN /\ pc' = "exited"
            /\ outcome' = "exit"
            /\ exit_status' = 0
       ELSE /\ pc' = "done"
            /\ outcome' = "returned"
            /\ UNCHANGED exit_status
    /\ UNCHANGED <<caller, source, earlier_runs, cloud, plan_input, statefile, tf_resources_created,
                   tfgraph, graphdict, graph_keys, meta_data, node_list, setup_i,
                   gvid_table, iter_nodes, ni, node, node_id, ei>>

----------------------------------------------------------------------------
(* tf_from_offline *)

\* A resource of a state document. mode "" and module <<>> stand for a field
\* that is absent; an instance is [index_key, attributes].
StateResource(address, mode, module, instances) ==
    [address |-> address, mode |-> mode, module |-> module, instances |-> instances]

StateInstance(index_key, attributes) ==
    [index_key |-> index_key, attributes |-> attributes]

\* inst.get("index_key"): None when the instance has none
get_index_key(inst) ==
    IF inst.index_key.kind = "absent" THEN IndexNone ELSE inst.index_key

\* the records _plandata_from_state makes of one resource
state_changes_of(r) ==
    LET instances == IF r.instances = <<>>
                     THEN <<StateInstance(IndexAbsent, EmptyDict)>>
                     ELSE r.instances
    IN [i \in 1..Len(instances) |->
          ResourceChange(r.address,
                         IF r.mode = "" THEN "managed" ELSE r.mode,
                         get_index_key(instances[i]),
                         IF r.module = <<>> THEN <<>> ELSE MODULE_DOT \o r.module,
                         instances[i].attributes, EmptyDict, EmptyDict)]

\* _plandata_from_state: the records of every resource, in order
RECURSIVE plandata_from_state(_)
plandata_from_state(resources) ==
    IF resources = <<>> THEN <<>>
    ELSE state_changes_of(resources[1]) \o plandata_from_state(Tail(resources))

\* tf_from_offline up to its call of setup_graph: the document is normalised
\* and make_tf_data stores it with an empty low-level graph, or exits when
\* there is no resource change
TfFromOffline ==
    /\ pc = "tf_from_offline"
    /\ LET plandata == IF source = "planfile" THEN plan_input
                       ELSE plandata_from_state(statefile)
       IN /\ plan_input' = plandata
          /\ IF plandata = <<>>
             THEN /\ pc' = "exited"
                  /\ outcome' = "exit"
                  /\ exit_status' = 0
                  /\ UNCHANGED <<tf_resources_created, tfgraph>>
             ELSE /\ tf_resources_created' = plandata
                  /\ tfgraph' = [objects |-> <<>>, edges |-> <<>>]
                  /\ pc' = "setup_graph"
                  /\ UNCHANGED <<outcome, exit_status>>
    /\ caller' = "tf_from_offline"
    /\ UNCHANGED <<source, earlier_runs, cloud, statefile, graphdict, graph_keys, meta_data, node_list,
                   setup_i, gvid_table, iter_nodes, ni, node, node_id, ei>>

----------------------------------------------------------------------------
(* AWS Secrets Manager as the secrets managers use it *)

\* the two secrets of a team: /aap/<team>/shared/credentials and
\* /aap/<team>/<user>/credentials
SHARED_ID == "shared"
USER_ID == "individual"
SecretIds == {SHARED_ID, USER_ID}

\* What is stored under a secret id. kind "none": there is no such secret;
\* "empty": a secret without SecretString; "json": the text of a JSON object;
\* "pydict": the text of a Python dict literal that is not JSON (the legacy
\* format); "text": any other text. items holds the members of the object
\* in the order of the text, as <<name, value>> pairs.
NoSecret == [kind |-> "none", items |-> <<>>]
EmptySecret == [kind |-> "empty", items |-> <<>>]
OtherText == [kind |-> "text", items |-> <<>>]
JsonText(items) == [kind |-> "json", items |-> items]
PyDictText(items) == [kind |-> "pydict", items |-> items]

\* Python values (a str or a dict of strs) and the JSON values of a text
PyStr(x) == [py |-> "str", v |-> x]
PyDict(x) == [py |-> "dict", v |-> x]
json_dumps_value(x) == [js |-> IF x.py = "str" THEN "string" ELSE "object", v |-> x.v]
json_loads_value(j) == [py |-> IF j.js = "string" THEN "str" ELSE "dict", v |-> j.v]

\* json.dumps and json.loads of a dict, kept as its <<name, value>> pairs
json_dumps(conns) ==
    JsonText([i \in 1..Len(conns) |-> <<conns[i][1], json_dumps_value(conns[i][2])>>])
json_loads(text) ==
    [i \in 1..Len(text.items) |-> <<text.items[i][1], json_loads_value(text.items[i][2])>>]

\* dict operations on the pairs
\* mutant of conns_set: the assignment replaces the whole dict
conns_only(conns, name, value) == <<<<name, value>>>>

conns_has(conns, name) == \E i \in 1..Len(conns) : conns[i][1] = name
conns_get(conns, name) == conns[CHOOSE i \in 1..Len(conns) : conns[i][1] = name][2]
conns_set(conns, name, value) ==
    IF conns_has(conns, name)
    THEN [i \in 1..Len(conns) |-> IF conns[i][1] = name THEN <<name, value>> ELSE conns[i]]
    ELSE Append(conns, <<name, value>>)
conns_pop(conns, name) == SelectSeq(conns, LAMBDA e : e[1] # name)

\* the outcome of a call that came back
Ok(value) == [err |-> "", value |-> value]
Raised(e) == [err |-> e, value |-> <<>>]

\* Secrets Manager put_secret_value: it needs the secret to exist
put_secret_value(store, id, text) ==
    IF store[id].kind = "none"
    THEN [err |-> "ResourceNotFoundException", store |-> store]
    ELSE [err |-> "", store |-> [store EXCEPT ![id] = text]]

\* Secrets Manager create_secret
create_secret(store, id, text) ==
    IF store[id].kind # "none"
    THEN [err |-> "ResourceExistsException", store |-> store]
    ELSE [err |-> "", store |-> [store EXCEPT ![id] = text]]

----------------------------------------------------------------------------
(* secrets_manager.py: the module-level API *)

\* _secret_path: a Studio domain execution role forces the shared secret
v1_secret_path(shared) == IF shared \/ domain_role THEN SHARED_ID ELSE USER_ID

\* _secret_of_secrets
v1_secret_of_secrets(store, shared) ==
    LET secret == store[v1_secret_path(shared)]
    IN IF secret.kind \in {"none", "empty"} THEN Ok(<<>>)
       ELSE IF secret.kind = "json" THEN Ok(json_loads(secret))
       ELSE IF secret.kind = "pydict" THEN Ok(secret.items)
       ELSE Raised("ValueError")

v1_list_connections(store, shared) == v1_secret_of_secrets(store, shared)

v1_get_connection(store, name, shared) ==
    LET conns == v1_secret_of_secrets(store, shared)
    IN IF conns.err # "" THEN conns
       ELSE IF conns_has(conns.value, name) THEN Ok(conns_get(conns.value, name))
       ELSE Raised("KeyError")

\* put_connection: the outcome and the store it leaves
v1_put_connection(store, name, secret_value, shared) ==
    LET conns == v1_secret_of_secrets(store, shared)
        put == put_secret_value(store, v1_secret_path(shared),
                                json_dumps(conns_set(conns.value, name, secret_value)))
    IN IF conns.err # "" THEN [err |-> conns.err, store |-> store] ELSE put

v1_delete_connection(store, name, shared) ==
    LET conns == v1_secret_of_secrets(store, shared)
        put == put_secret_value(store, v1_secret_path(shared),
                                json_dumps(conns_pop(conns.value, name)))
    IN IF conns.err # "" THEN [err |-> conns.err, store |-> store] ELSE put

----------------------------------------------------------------------------
(* secrets_manager_2.py: ProjectSecret *)

v2_secret_path(shared) == IF shared THEN SHARED_ID ELSE USER_ID

\* _read_secret_json behind list_connections
v2_list_connections(store, shared) ==
    LET secret == store[v2_secret_path(shared)]
    IN IF secret.kind = "json" THEN Ok(json_loads(secret)) ELSE Ok(<<>>)

v2_get_connection(store, name, shared) ==
    LET conns == v2_list_connections(store, shared)
    IN IF conns_has(conns.value, name) THEN Ok(conns_get(conns.value, name))
       ELSE Raised("KeyError")

\* _write_secret_json: put_secret_value, and create_secret when there is no
\* such secret
v2_write_secret_json(store, id, payload) ==
    LET put == put_secret_value(store, id, json_dumps(payload))
    IN IF put.err = "ResourceNotFoundException"
       THEN create_secret(store, id, json_dumps(payload))
       ELSE put

v2_put_connection(store, name, secret_value, shared) ==
    LET conns == v2_list_connections(store, shared)
    IN v2_write_secret_json(store, v2_secret_path(shared),
                            conns_set(conns.value, name, secret_value))

v2_delete_connection(store, name, shared) ==
    LET conns == v2_list_connections(store, shared)
    IN IF conns_has(conns.value, name)
       THEN v2_write_secret_json(store, v2_secret_path(shared),
                                 conns_pop(conns.value, name))
       ELSE [err |-> "", store |-> store]

----------------------------------------------------------------------------
(* The public API of both modules, one action per function *)

V1 == "secrets_manager"
V2 == "ProjectSecret"
Modules == {V1, V2}
ConnectionNames == {"pg", "s3"}
SecretValues == {PyStr("token"), PyDict("user-password")}

NoValue == [py |-> "none", v |-> ""]
NoCall == [module |-> "", op |-> "", name |-> "", shared |-> FALSE,
           value |-> NoValue, err |-> "", result |-> <<>>]

Call(module, op, name, shared, value, err, result) ==
    [module |-> module, op |-> op, name |-> name, shared |-> shared,
     value |-> value, err |-> err, result |-> result]

\* the secret a call of a module addresses
secret_path(module, shared) ==
    IF module = V1 THEN v1_secret_path(shared) ELSE v2_secret_path(shared)

list_connections(module, store, shared) ==
    IF module = V1 THEN v1_list_connections(store, shared)
    ELSE v2_list_connections(store, shared)

get_connection(module, store, name, shared) ==
    IF module = V1 THEN v1_get_connection(store, name, shared)
    ELSE v2_get_connection(store, name, shared)

put_connection(module, store, name, secret_value, shared) ==
    IF module = V1 THEN v1_put_connection(store, name, secret_value, shared)
    ELSE v2_put_connection(store, name, secret_value, shared)

delete_connection(module, store, name, shared) ==
    IF module = V1 THEN v1_delete_connection(store, name, shared)
    ELSE v2_delete_connection(store, name, shared)

ListConnections ==
    /\ \E module \in Modules, shared \in BOOLEAN :
         LET r == list_connections(module, secret_store, shared)
         IN api_call' = Call(module, "list", "", shared, NoValue, r.err, r.value)
    /\ UNCHANGED <<tfdata, reaper, clients, secret_store, domain_role>>

GetConnection ==
    /\ \E module \in Modules, shared \in BOOLEAN, name \in ConnectionNames :
         LET r == get_connection(module, secret_store, name, shared)
         IN api_call' = Call(module, "get", name, shared, NoValue, r.err,
                             IF r.err = "" THEN <<r.value>> ELSE <<>>)
    /\ UNCHANGED <<tfdata, reaper, clients, secret_store, domain_role>>

PutConnection ==
    /\ \E module \in Modules, shared \in BOOLEAN, name \in ConnectionNames,
          value \in SecretValues :
         LET r == put_connection(module, secret_store, name, value, shared)
         IN /\ secret_store' = r.store
            /\ api_call' = Call(module, "put", name, shared, value, r.err, <<>>)
    /\ UNCHANGED <<tfdata, reaper, clients, domain_role>>

DeleteConnection ==
    /\ \E module \in Modules, shared \in BOOLEAN, name \in ConnectionNames :
         LET r == delete_connection(module, secret_store, name, shared)
         IN /\ secret_store' = r.store
            /\ api_call' = Call(module, "delete", name, shared, NoValue, r.err, <<>>)
    /\ UNCHANGED <<tfdata, reaper, clients, domain_role>>

----------------------------------------------------------------------------
(* put_connection called by clients that run at the same time: each call is
   a read of the secret, an assignment in the client's own copy of the map,
   and a write of the whole map; the calls to Secrets Manager of different
   clients interleave *)

Clients == {1, 2}

\* pc "none": the client makes no call; "called": put_connection was called;
\* "read": conns holds the map read with name set in it; "create":
\* put_secret_value found no secret (_write_secret_json); "returned"
NoClient == [pc |-> "none", module |-> "", name |-> "", shared |-> FALSE,
             value |-> NoValue, conns |-> <<>>, err |-> ""]
NoClients == [c \in Clients |-> NoClient]

\* conns = _secret_of_secrets(...) / cls.list_connections(shared), then
\* conns[name] = secret_value
ClientRead ==
    /\ \E c \in Clients :
         /\ clients[c].pc = "called"
         /\ LET me == clients[c]
                r == list_connections(me.module, secret_store, me.shared)
            IN clients' = [clients EXCEPT ![c] =
                   IF r.err # ""
                   THEN [me EXCEPT !.pc = "returned", !.err = r.err]
                   ELSE [me EXCEPT !.pc = "read",
                                   !.conns = conns_set(r.value, me.name, me.value)]]
    /\ UNCHANGED <<tfdata, reaper, secret_store, domain_role, api_call>>

\* put_secret_value(SecretId=secret_id, SecretString=json.dumps(conns)); in
\* ProjectSecret a ResourceNotFoundException leads to create_secret
ClientWrite ==
    /\ \E c \in Clients :
         /\ clients[c].pc = "read"
         /\ LET me == clients[c]
                put == put_secret_value(secret_store, secret_path(me.module, me.shared),
                                        json_dumps(me.conns))
            IN IF me.module = V2 /\ put.err = "ResourceNotFoundException"
               THEN /\ clients' = [clients EXCEPT ![c] = [me EXCEPT !.pc = "create"]]
                    /\ UNCHANGED secret_store
               ELSE /\ clients' = [clients EXCEPT ![c] =
                                      [me EXCEPT !.pc = "returned", !.err = put.err]]
                    /\ secret_store' = put.store
    /\ UNCHANGED <<tfdata, reaper, domain_role, api_call>>

\* _write_secret_json: create_secret(Name=secret_id, SecretString=data)
ClientCreate ==
    /\ \E c \in Clients :
         /\ clients[c].pc = "create"
         /\ LET me == clients[c]
                made == create_secret(secret_store, secret_path(me.module, me.shared),
                                      json_dumps(me.conns))
            IN /\ clients' = [clients EXCEPT ![c] =
                                 [me EXCEPT !.pc = "returned", !.err = made.err]]
               /\ secret_store' = made.store
    /\ UNCHANGED <<tfdata, reaper, domain_role, api_call>>

----------------------------------------------------------------------------
(* ecs_lambda.py: the task reaper *)

\* MAX_TASK_AGE_HOURS of the environment
MAX_AGE_HOURS == 2

\* datetime.min: earlier than every time of the model, which start at 1
DATETIME_MIN == 0

\* str.lower on the texts of the model
lower(x) ==
    IF x = "PreInit" THEN "preinit"
    ELSE IF x = "TRUE" THEN "true"
    ELSE IF x = "Shiny" THEN "shiny"
    ELSE IF x = "APP-RUNTIME" THEN "app-runtime"
    ELSE x

\* str.lower on a text kept as its pieces
lower_text(t) == [i \in 1..Len(t) |-> lower(t[i])]

\* A container definition: its dockerLabels sp.mode and SP_MODE and its
\* environment variable PRE_INIT_MODE ("" when absent), and its image
Container(sp_mode, SP_MODE, pre_init_mode, image) ==
    [sp_mode |-> sp_mode, SP_MODE |-> SP_MODE, pre_init_mode |-> pre_init_mode,
     image |-> image]

\* A task description with its task definition; started 0 is no startedAt
Task(id, tags, started, containers) ==
    [id |-> id, tags |-> tags, started |-> started, containers |-> containers]

\* x or y on texts
or_text(x, y) == IF x # "" THEN x ELSE y

is_preinit_task(task) ==
    \/ \E i \in 1..Len(task.tags) :
          task.tags[i].key = "sp.mode" /\ task.tags[i].value = "preinit"
    \/ \E i \in 1..Len(task.containers) :
          lower(or_text(task.containers[i].sp_mode, task.containers[i].SP_MODE)) = "preinit"
    \/ \E i \in 1..Len(task.containers) :
          lower(task.containers[i].pre_init_mode) = "true"

is_ondemand_task(task) == ~is_preinit_task(task)

\* mutant of image_matches: the filter is not applied
image_matches_any(task) == TRUE

\* any('app-runtime' in img or 'shiny' in img.lower() for img in images)
image_matches(task) ==
    \E i \in 1..Len(task.containers) :
       \/ contains(task.containers[i].image, <<"app-runtime">>)
       \/ contains(lower_text(task.containers[i].image), <<"shiny">>)

\* the updatedAt of every deployment of every service of a cluster
RECURSIVE deployments_of(_)
deployments_of(services) ==
    IF services = <<>> THEN <<>>
    ELSE services[1] \o deployments_of(Tail(services))

\* max(deployments), or datetime.min when there is none
latest_deployment(services) ==
    LET deployments == deployments_of(services)
    IN IF deployments = <<>> THEN DATETIME_MIN
       ELSE CHOOSE m \in Range(deployments) : \A d \in Range(deployments) : d <= m

\* whether the loop body reaches stop_task for a task, at time t
stops(task, t, last) ==
    /\ is_ondemand_task(task)
    /\ task.started # 0
    /\ ~(t - task.started < MAX_AGE_HOURS)
    /\ ~(task.started >= last)
    /\ image_matches(task)

\* lambda_handler is invoked: the clusters are listed
LambdaHandler ==
    /\ handler_pc = "start"
    /\ cluster_i' = 0
    /\ handler_pc' = IF ecs_clusters = <<>> THEN "return" ELSE "cluster"
    /\ UNCHANGED <<tfdata, secrets, ecs_clusters, now, task_i, last_deploy_time,
                   stop_calls, response>>

\* the head of the loop over clusters: the latest deployment time and the
\* running tasks of the cluster
ClusterStep ==
    /\ handler_pc = "cluster"
    /\ LET cluster == ecs_clusters[cluster_i + 1]
           last == (cluster_i + 1 = Len(ecs_clusters))
       IN /\ last_deploy_time' = latest_deployment(cluster.services)
          /\ task_i' = 0
          /\ IF cluster.tasks = <<>>
             THEN /\ cluster_i' = cluster_i + 1
                  /\ handler_pc' = IF last THEN "return" ELSE "cluster"
             ELSE /\ cluster_i' = cluster_i
                  /\ handler_pc' = "task"
    /\ UNCHANGED <<tfdata, secrets, ecs_clusters, now, stop_calls, response>>

\* one iteration of the loop over the described tasks; the clock is read
\* in it and may have moved on
TaskStep ==
    /\ handler_pc = "task"
    /\ \E t \in now..(IF now < MaxHour THEN now + 1 ELSE now) :
         LET cluster == ecs_clusters[cluster_i + 1]
             task == cluster.tasks[task_i + 1]
             last_task == (task_i + 1 = Len(cluster.tasks))
             last == (cluster_i + 1 = Len(ecs_clusters))
         IN /\ now' = t
            /\ stop_calls' =
                 IF stops(task, t, last_deploy_time)
                 THEN Append(stop_calls, [cluster |-> cluster.name, task |-> task.id,
                                          at |-> t])
                 ELSE stop_calls
            /\ task_i' = task_i + 1
            /\ cluster_i' = IF last_task THEN cluster_i + 1 ELSE cluster_i
            /\ handler_pc' = IF ~last_task THEN "task"
                             ELSE IF last THEN "return" ELSE "cluster"
    /\ UNCHANGED <<tfdata, secrets, ecs_clusters, last_deploy_time, response>>

HandlerReturn ==
    /\ handler_pc = "return"
    /\ response' = [statusCode |-> 200]
    /\ handler_pc' = "done"
    /\ UNCHANGED <<tfdata, secrets, ecs_clusters, now, cluster_i, task_i,
                   last_deploy_time, stop_calls>>

\* the task reaper has not run
ReaperIdle ==
    /\ handler_pc = "none"
    /\ cluster_i = 0
    /\ task_i = 0
    /\ last_deploy_time = DATETIME_MIN
    /\ stop_calls = <<>>
    /\ response = [statusCode |-> 0]

\* no secret exists, no call was made, there is no cluster
CloudIdle ==
    /\ secret_store = [id \in SecretIds |-> NoSecret]
    /\ domain_role = FALSE
    /\ api_call = NoCall
    /\ clients = NoClients
    /\ ecs_clusters = <<>>
    /\ now = 1
    /\ ReaperIdle

----------------------------------------------------------------------------
(* Node builder runs: setup_graph on plans drawn from a pool of records *)

AWS_X_A == <<"aws_", "x", ".", "a">>
AWS_Y_B == <<"aws_", "y", ".", "b">>
MOD_M_X_A == <<"module", ".", "m", ".", "aws_", "x", ".", "a">>
MOD_M == <<"module", ".", "m">>
MOD_A_B_X_A == <<"module", ".", "a", ".", "module", ".", "b", ".", "aws_", "x", ".", "a">>
MOD_A_B == <<"module", ".", "a", ".", "module", ".", "b">>

IntIndexPool == (0..MaxIndex) \cup {9}

IndexPool == {IndexAbsent, IndexStr(<<"k">>)} \cup {IndexInt(i) : i \in IntIndexPool}

\* (after, after_unknown, after_sensitive) triples
A1 == [k \in {"a"} |-> IntVal(1)]
U23 == [k \in {"a", "b"} |-> IF k = "a" THEN IntVal(2) ELSE IntVal(3)]
S4 == [k \in {"b"} |-> IntVal(4)]
A12 == [k \in {"a", "b"} |-> IF k = "a" THEN IntVal(1) ELSE IntVal(2)]
Ub == [k \in {"b"} |-> TrueVal]

OverlayPool == {<<A1, U23, S4>>, <<A12, Ub, EmptyDict>>, <<A1, EmptyDict, S4>>}

NodeRecordPool ==
    {ResourceChange(AWS_X_A, m, i, <<>>, o[1], o[2], o[3]) :
        m \in {"managed", "data"}, i \in IndexPool, o \in OverlayPool}
    \cup {ResourceChange(AWS_Y_B, "managed", IndexAbsent, <<>>, o[1], o[2], o[3]) :
            o \in OverlayPool}
    \cup {ResourceChange(MOD_M_X_A, "managed", IndexAbsent, MOD_M, A1, U23, S4),
          ResourceChange(MOD_A_B_X_A, "managed", IndexAbsent, MOD_A_B, A1, U23, S4)}

SeqsUpTo(S, n) == UNION {[1..k -> S] : k \in 1..n}

EmptyGraph == [objects |-> <<>>, edges |-> <<>>]

\* the graph builder has not run yet
TfdataIdle ==
    /\ outcome = "none"
    /\ earlier_runs = <<>>
    /\ exit_status = -1
    /\ graphdict = EmptyDict
    /\ graph_keys = <<>>
    /\ meta_data = EmptyDict
    /\ node_list = <<>>
    /\ setup_i = 0
    /\ gvid_table = <<>>
    /\ iter_nodes = <<>>
    /\ ni = 0
    /\ node = <<>>
    /\ node_id = 0
    /\ ei = 0

\* nothing has run yet
Idle == TfdataIdle /\ CloudIdle

InitNodes ==
    /\ plan_input \in SeqsUpTo(NodeRecordPool, MaxRecords)
    /\ tf_resources_created = plan_input
    /\ statefile = <<>>
    /\ tfgraph = EmptyGraph
    /\ caller = "setup_graph"
    /\ source = "plan"
    /\ pc = "setup_graph"
    /\ Idle

NextNodes == SetupGraphBegin \/ SetupRecord \/ SetupGraphReturn

SpecNodes == InitNodes /\ [][NextNodes]_vars

----------------------------------------------------------------------------
(* Graph construction runs: tf_makegraph on a plan and a low-level graph *)

AWS_LB_R == <<"aws_", "lb", ".", "r">>
AWS_VPC_V == <<"aws_", "vpc", ".", "v">>
AWS_SUBNET_S == <<"aws_", "subnet", ".", "s">>

CidrAttrs(v) == [k \in {"cidr_block"} |-> v]

Managed(address, index, after) ==
    ResourceChange(address, "managed", index, <<>>, after, EmptyDict, EmptyDict)

AWS_Z_C == <<"aws_", "z", ".", "c">>
AWS_Z_C_0 == <<"aws_", "z", ".", "c", "[", "0", "]">>

\* Edge family: the resource changes a plan is drawn from, in plan order,
\* and the labels the objects of its low-level graph are drawn from
EdgePlanUniverse ==
    << Managed(AWS_Y_B, IndexAbsent, A1),
       Managed(AWS_X_A, IndexInt(0), A1),
       Managed(AWS_X_A, IndexInt(1), A1),
       Managed(AWS_LB_R, IndexInt(0), A1),
       Managed(AWS_LB_R, IndexInt(1), A1) >>

EdgeLabelUniverse == <<AWS_Y_B, AWS_X_A, AWS_LB_R>>

\* Network family: a vpc, a subnet inside it and an instance whose address
\* carries its own "[0]"
NetPlanUniverse ==
    << Managed(AWS_VPC_V, IndexAbsent, CidrAttrs(CidrVal(10, 0, 0, 0, 16))),
       Managed(AWS_SUBNET_S, IndexAbsent, CidrAttrs(CidrVal(10, 0, 1, 0, 24))),
       Managed(AWS_Z_C_0, IndexInt(0), A1) >>

NetLabelUniverse == <<AWS_VPC_V, AWS_SUBNET_S, AWS_Z_C>>

\* the elements of u at the positions in P, in order
RECURSIVE pick(_, _, _)
pick(u, P, n) ==
    IF n = 0 THEN <<>>
    ELSE IF n \in P THEN Append(pick(u, P, n - 1), u[n]) ELSE pick(u, P, n - 1)

SubSeqsOf(u, lo, hi) ==
    {pick(u, P, Len(u)) : P \in {Q \in SUBSET (1..Len(u)) :
                                    Cardinality(Q) >= lo /\ Cardinality(Q) <= hi}}

Plans(universe) == SubSeqsOf(universe, 1, MaxNodes)

ObjectLists(universe) ==
    {[i \in 1..Len(labels) |-> [gvid |-> i - 1, label |-> labels[i]]] :
        labels \in SubSeqsOf(universe, 0, MaxObjects)}

\* sequences of at most MaxEdges different edges between different objects
EdgeLists(n) ==
    LET E == {[tail |-> t, head |-> h] : t, h \in 0..(n - 1)} \ 
             {[tail |-> t, head |-> t] : t \in 0..(n - 1)}
    IN {<<>>} \cup
       {es \in UNION {[1..k -> E] : k \in 1..MaxEdges} :
           \A i, j \in 1..Len(es) : es[i] = es[j] => i = j}

\* a plan of the universe with a low-level graph over the labels
PlanAndGraph(plans, labels) ==
    /\ plan_input \in Plans(plans)
    /\ \E objs \in ObjectLists(labels) :
         \E es \in EdgeLists(Len(objs)) :
            tfgraph = [objects |-> objs, edges |-> es]

\* the state tf_initplan and make_tf_data leave: a plan with at least one
\* resource change and the low-level graph
Init ==
    /\ \/ PlanAndGraph(EdgePlanUniverse, EdgeLabelUniverse)
       \/ PlanAndGraph(NetPlanUniverse, NetLabelUniverse)
    /\ tf_resources_created = plan_input
    /\ statefile = <<>>
    /\ source = "plan"
    /\ caller = "tf_makegraph"
    /\ pc = "tf_makegraph"
    /\ Idle

Next ==
    \/ TfMakegraph
    \/ SetupGraphBegin
    \/ SetupRecord
    \/ SetupGraphReturn
    \/ BuildGvidTable
    \/ NodeLookup
    \/ EdgeStep
    \/ AddVpcImpliedRelations
    \/ Validate

Spec == Init /\ [][Next]_vars

----------------------------------------------------------------------------
(* Offline runs: tf_from_offline on a plan document or a state document *)

\* the instances a resource's instance list is drawn from, in order
InstanceUniverse ==
    << StateInstance(IndexAbsent, A1),
       StateInstance(IndexInt(0), A1),
       StateInstance(IndexStr(<<"k">>), A1),
       StateInstance(IndexAbsent, CidrAttrs(CidrVal(10, 0, 1, 0, 24))) >>

InstanceLists == SubSeqsOf(InstanceUniverse, 0, MaxInstances)

\* the resources a state document is drawn from, in order, less their instances
StateResourceUniverse ==
    << [address |-> AWS_X_A, mode |-> ""],
       [address |-> AWS_X_A, mode |-> "managed"],
       [address |-> AWS_X_A, mode |-> "data"],
       [address |-> AWS_SUBNET_S, mode |-> "managed"] >>

\* a state document: resources of the universe, each with a list of instances
IsStateFile(doc) ==
    \E rs \in SubSeqsOf(StateResourceUniverse, 0, MaxResources) :
       \E insts \in [1..Len(rs) -> InstanceLists] :
          doc = [i \in 1..Len(rs) |->
                   StateResource(rs[i].address, rs[i].mode, <<>>, insts[i])]

PlanFiles == {<<>>} \cup Plans(EdgePlanUniverse) \cup Plans(NetPlanUniverse)

InitOffline ==
    /\ \/ /\ source = "planfile"
          /\ plan_input \in PlanFiles
          /\ statefile = <<>>
       \/ /\ source = "statefile"
          /\ plan_input = <<>>
          /\ IsStateFile(statefile)
    /\ tf_resources_created = <<>>
    /\ tfgraph = EmptyGraph
    /\ caller = "tf_from_offline"
    /\ pc = "tf_from_offline"
    /\ Idle

NextOffline == TfFromOffline \/ SetupGraphBegin \/ SetupRecord \/ SetupGraphReturn

SpecOffline == InitOffline /\ [][NextOffline]_vars

----------------------------------------------------------------------------
(* Properties of tf_makegraph, checked under Spec *)

NodeSet == Range(node_list)

MakegraphDone == pc = "done" /\ caller = "tf_makegraph"

\* the text before the first "." of a label
first_segment(l) ==
    LET dots == {p \in 1..Len(l) : l[p] = "."}
    IN IF dots = {} THEN l
       ELSE SubSeq(l, 1, (CHOOSE p \in dots : \A q \in dots : p <= q) - 1)

\* the node keys a label is a prefix of
prefixed_nodes(label) == {k \in NodeSet : startswith(k, label)}

\* C1: when tf_makegraph has completed, every key of graphdict and every key
\* inside an adjacency list is a member of node_list.
C1_EdgeEndpointsAreNodes ==
    MakegraphDone =>
      \A k \in DOMAIN graphdict :
         /\ k \in NodeSet
         /\ \A i \in 1..Len(graphdict[k]) : graphdict[k][i] \in NodeSet

\* C2: an edge whose head is the current node and whose tail label is no node
\* key but a prefix of more than one node key inserts nothing and does not
\* abort the construction.
C2_AmbiguousTailDropped ==
    [][(/\ pc = "edge_loop"
        /\ node_id = cur_edge.head
        /\ tail_label \notin NodeSet
        /\ Cardinality(prefixed_nodes(tail_label)) > 1)
       => (graphdict' = graphdict /\ graph_keys' = graph_keys /\ pc' # "crashed")]_vars

\* C3: a node whose base label is in the label table neither directly nor
\* after the normalization pass ends the run in the label-resolution error,
\* not in a generic exception.
C3_LabelResolutionError ==
    (/\ pc = "crashed"
     /\ caller = "tf_makegraph"
     /\ ni < Len(iter_nodes)
     /\ node = iter_nodes[ni + 1]
     /\ split_first(node, <<"~">>) \notin Range(gvid_table)
     /\ remove_brackets_and_numbers(split_first(node, <<"~">>)) \notin Range(gvid_table))
    => outcome = "LabelResolutionError"

\* C4: with an empty low-level graph, the plan of a vpc 10.0.0.0/16 and a
\* subnet 10.0.1.0/24 runs through without error and ends with the adjacency
\* {vpc: [subnet], subnet: []}.
C4_EmptyGraphEndToEnd ==
    (/\ caller = "tf_makegraph"
     /\ tfgraph = EmptyGraph
     /\ Len(plan_input) = 2
     /\ plan_input[1] = Managed(AWS_VPC_V, IndexAbsent, CidrAttrs(CidrVal(10, 0, 0, 0, 16)))
     /\ plan_input[2] = Managed(AWS_SUBNET_S, IndexAbsent, CidrAttrs(CidrVal(10, 0, 1, 0, 24))))
    => /\ pc \notin {"crashed", "exited"}
       /\ pc = "done" =>
            /\ DOMAIN graphdict = {AWS_VPC_V, AWS_SUBNET_S}
            /\ graphdict[AWS_VPC_V] = <<AWS_SUBNET_S>>
            /\ graphdict[AWS_SUBNET_S] = <<>>

\* C10: an edge taken for node N with target T is inserted as T -> N alone
\* when the first dot-separated segment of the tail label is in
\* REVERSE_ARROW_LIST, and as N -> T alone otherwise.
C10_ReverseArrowDirection ==
    [][(pc = "edge_loop" /\ edge_taken) =>
         LET N == node
             T == IF tail_label \notin DOMAIN graphdict
                     /\ Cardinality({k \in DOMAIN graphdict : startswith(k, tail_label)}) = 1
                  THEN CHOOSE k \in DOMAIN graphdict : startswith(k, tail_label)
                  ELSE tail_label
             old(k) == IF k \in DOMAIN graphdict THEN graphdict[k] ELSE <<>>
             from == IF first_segment(tail_label) \in REVERSE_ARROW_LIST THEN T ELSE N
             to == IF first_segment(tail_label) \in REVERSE_ARROW_LIST THEN N ELSE T
         IN /\ DOMAIN graphdict' = DOMAIN graphdict \cup {from}
            /\ graphdict'[from] = Append(old(from), to)
            /\ \A k \in DOMAIN graphdict' \ {from} : graphdict'[k] = graphdict[k]]_vars

\* C10 witness: the edge aws_lb.r -> aws_y.b of the low-level graph, taken
\* for node aws_y.b, ended as aws_lb.r~1 -> aws_y.b alone
C10_Witness ==
    /\ MakegraphDone
    /\ tfgraph.objects = <<[gvid |-> 0, label |-> AWS_Y_B], [gvid |-> 1, label |-> AWS_LB_R]>>
    /\ tfgraph.edges = <<[tail |-> 1, head |-> 0]>>
    /\ DOMAIN graphdict = {AWS_Y_B, AWS_LB_R \o <<"~", "1">>}
    /\ graphdict[AWS_LB_R \o <<"~", "1">>] = <<AWS_Y_B>>
    /\ graphdict[AWS_Y_B] = <<>>

----------------------------------------------------------------------------
(* Properties of tf_from_offline, checked under SpecOffline *)

OfflineDone == pc = "done" /\ caller = "tf_from_offline"

\* the keys of the managed records of the plan
managed_keys(plan) ==
    {node_key(plan[i]) : i \in {j \in 1..Len(plan) : plan[j].mode = "managed"}}

\* C5: an offline run never fails on a label lookup, emits every managed node
\* as a key of graphdict with no edge of a low-level graph, and still connects
\* an overlapping vpc/subnet pair vpc -> subnet.
C5_OfflineImpliedRelations ==
    /\ caller = "tf_from_offline" => outcome # "ValueError"
    /\ OfflineDone =>
         /\ DOMAIN graphdict = managed_keys(plan_input)
         /\ \A v \in DOMAIN graphdict : \A i \in 1..Len(graphdict[v]) :
              /\ startswith(v, AWS_VPC_DOT)
              /\ startswith(graphdict[v][i], AWS_SUBNET_DOT)
         /\ \A v, sn \in DOMAIN graphdict :
              (/\ startswith(v, AWS_VPC_DOT)
               /\ startswith(sn, AWS_SUBNET_DOT)
               /\ cidr_error(meta_data, v) = ""
               /\ cidr_error(meta_data, sn) = ""
               /\ overlaps(ip_network(meta_data[sn]["cidr_block"]),
                           ip_network(meta_data[v]["cidr_block"])))
              => sn \in Range(graphdict[v])

\* C5 as amended: an offline run never fails on a label lookup, and what it
\* returns has every managed node as a key of graphdict and every adjacency
\* list empty: no label table is built and no implied relation is added.
C5_OfflineNoEdges ==
    /\ caller = "tf_from_offline" => outcome # "ValueError"
    /\ OfflineDone =>
         /\ DOMAIN graphdict = managed_keys(plan_input)
         /\ \A k \in DOMAIN graphdict : graphdict[k] = <<>>
         /\ gvid_table = <<>>

\* C5 witness: the offline run on the plan of the vpc 10.0.0.0/16 and the
\* subnet 10.0.1.0/24 has returned, and the vpc has no edge
C5_Witness ==
    /\ OfflineDone
    /\ DOMAIN graphdict = {AWS_VPC_V, AWS_SUBNET_S}
    /\ overlaps(ip_network(meta_data[AWS_SUBNET_S]["cidr_block"]),
                ip_network(meta_data[AWS_VPC_V]["cidr_block"]))
    /\ graphdict[AWS_VPC_V] = <<>>

\* C6: the records made of a state document are accepted by setup_graph: no
\* run on a state document ends in an error, and an instance without
\* index_key yields the node whose key is the resource address.
C6_StateRecordsAccepted ==
    (caller = "tf_from_offline" /\ source = "statefile") =>
      /\ pc # "crashed"
      /\ OfflineDone =>
           \A i \in 1..Len(statefile) :
              (/\ statefile[i].mode # "data"
               /\ \/ statefile[i].instances = <<>>
                  \/ \E j \in 1..Len(statefile[i].instances) :
                        statefile[i].instances[j].index_key = IndexAbsent)
              => statefile[i].address \in NodeSet

----------------------------------------------------------------------------
(* Properties of setup_graph, checked under SpecNodes *)

\* the positions of the managed records among the first n of a plan
RECURSIVE managed_positions(_, _)
managed_positions(plan, n) ==
    IF n = 0 THEN <<>>
    ELSE IF plan[n].mode = "managed"
         THEN Append(managed_positions(plan, n - 1), n)
         ELSE managed_positions(plan, n - 1)

\* the number a text of decimal digits denotes
RECURSIVE digits_value(_)
digits_value(d) ==
    IF d = <<>> THEN 0
    ELSE 10 * digits_value(SubSeq(d, 1, Len(d) - 1))
         + ((CHOOSE i \in 1..10 : Digit[i] = d[Len(d)]) - 1)

NoDuplicates(l) == \A i, j \in 1..Len(l) : l[i] = l[j] => i = j

FirstPos(l, x) == CHOOSE i \in 1..Len(l) : l[i] = x /\ \A j \in 1..(i - 1) : l[j] # x

\* C7: after setup_graph, node_list has no duplicate key, holds exactly the
\* keys of the managed records (a data record produces none), in the order in
\* which the keys first appear in the input; a repeated (address, index) pair
\* is one node, and no run over plan records ends in an error.
C7_NodeListUniqueOrdered ==
    /\ pc # "crashed"
    /\ pc = "done" =>
         LET mp == managed_positions(plan_input, Len(plan_input))
             mk == [i \in 1..Len(mp) |-> node_key(plan_input[mp[i]])]
         IN /\ NoDuplicates(node_list)
            /\ Range(node_list) = Range(mk)
            /\ \A i, j \in 1..Len(node_list) :
                 i < j => FirstPos(mk, node_list[i]) < FirstPos(mk, node_list[j])
            /\ DOMAIN graphdict = Range(node_list)

\* C7 witness: a plan that repeats one managed record and ends with one node
C7_Witness ==
    /\ pc = "done"
    /\ Len(plan_input) = 2
    /\ plan_input[1].mode = "managed"
    /\ plan_input[1].address = plan_input[2].address
    /\ plan_input[1].index = plan_input[2].index
    /\ plan_input[2].mode = "managed"
    /\ Len(node_list) = 1

\* C8: the key appended for a managed record is its address, followed for an
\* integer index i by "~" and the decimal text of i + 1, for a string index k
\* by "[" k "]"; two managed records of one address with different indices
\* get different keys.
C8_NodeKeySuffix ==
    pc = "setup_loop" =>
      LET mp == managed_positions(plan_input, setup_i)
      IN /\ Len(node_list) = Len(mp)
         /\ \A j \in 1..Len(mp) :
              LET r == plan_input[mp[j]]
                  key == node_list[j]
                  la == Len(r.address)
              IN /\ r.index.kind = "absent" => key = r.address
                 /\ r.index.kind = "str" =>
                      key = r.address \o <<"[">> \o r.index.key \o <<"]">>
                 /\ r.index.kind = "int" =>
                      /\ Len(key) >= la + 2
                      /\ SubSeq(key, 1, la) = r.address
                      /\ key[la + 1] = "~"
                      /\ \A p \in (la + 2)..Len(key) : IsDigit(key[p])
                      /\ key[la + 2] # "0"
                      /\ digits_value(SubSeq(key, la + 2, Len(key))) = r.index.num + 1
         /\ \A j1, j2 \in 1..Len(mp) :
              (/\ plan_input[mp[j1]].address = plan_input[mp[j2]].address
               /\ plan_input[mp[j1]].index # plan_input[mp[j2]].index)
              => node_list[j1] # node_list[j2]

\* C8 witness: one address with count index 9 and with for-each key "k"
C8_Witness ==
    /\ pc = "setup_loop"
    /\ setup_i = 2
    /\ plan_input[1].mode = "managed" /\ plan_input[2].mode = "managed"
    /\ plan_input[1].index = IndexInt(9)
    /\ plan_input[2].index = IndexStr(<<"k">>)
    /\ node_list = <<AWS_X_A \o <<"~", "1", "0">>, AWS_X_A \o <<"[", "k", "]">>>>

\* the last managed record of the plan whose node key is key
last_record_of(plan, key) ==
    plan[CHOOSE i \in 1..Len(plan) :
           /\ plan[i].mode = "managed" /\ node_key(plan[i]) = key
           /\ \A j \in (i + 1)..Len(plan) :
                ~(plan[j].mode = "managed" /\ node_key(plan[j]) = key)]

\* C9: the attributes stored for a node take each name from after_sensitive
\* if it is there, else from after_unknown if it is there, else from after.
C9_OverlayOrder ==
    pc = "done" =>
      /\ DOMAIN meta_data = Range(node_list)
      /\ \A key \in DOMAIN meta_data :
           LET r == last_record_of(plan_input, key)
               md == meta_data[key]
               names == (DOMAIN md \cup DOMAIN r.after \cup DOMAIN r.after_unknown
                         \cup DOMAIN r.after_sensitive) \ {"module"}
           IN \A k \in names :
                IF k \in DOMAIN r.after_sensitive
                THEN k \in DOMAIN md /\ md[k] = r.after_sensitive[k]
                ELSE IF k \in DOMAIN r.after_unknown
                THEN k \in DOMAIN md /\ md[k] = r.after_unknown[k]
                ELSE IF k \in DOMAIN r.after
                THEN k \in DOMAIN md /\ md[k] = r.after[k]
                ELSE k \notin DOMAIN md

\* C9 witness: after={a:1}, after_unknown={a:2,b:3}, after_sensitive={b:4}
\* is stored as {a:2, b:4}
C9_Witness ==
    /\ pc = "done"
    /\ Len(plan_input) = 1
    /\ plan_input[1].address = AWS_Y_B
    /\ plan_input[1].after = A1
    /\ plan_input[1].after_unknown = U23
    /\ plan_input[1].after_sensitive = S4
    /\ meta_data[AWS_Y_B] = [k \in {"a", "b"} |-> IF k = "a" THEN IntVal(2) ELSE IntVal(4)]

----------------------------------------------------------------------------
(* Implied relation runs: tf_makegraph on plans of vpcs and subnets *)

AWS_VPC_W == <<"aws_", "vpc", ".", "w">>
AWS_SUBNET_T == <<"aws_", "subnet", ".", "t">>

\* two vpcs and two subnets: s overlaps both vpcs (w is a part of s), t none
ImpliedPlanUniverse ==
    << Managed(AWS_VPC_V, IndexAbsent, CidrAttrs(CidrVal(10, 0, 0, 0, 16))),
       Managed(AWS_SUBNET_S, IndexAbsent, CidrAttrs(CidrVal(10, 0, 1, 0, 24))),
       Managed(AWS_SUBNET_T, IndexAbsent, CidrAttrs(CidrVal(192, 168, 0, 0, 24))),
       Managed(AWS_VPC_W, IndexAbsent, CidrAttrs(CidrVal(10, 0, 1, 128, 25))) >>

ImpliedLabelUniverse == <<AWS_VPC_V, AWS_SUBNET_S, AWS_SUBNET_T, AWS_VPC_W>>

InitImplied ==
    /\ PlanAndGraph(ImpliedPlanUniverse, ImpliedLabelUniverse)
    /\ tf_resources_created = plan_input
    /\ statefile = <<>>
    /\ source = "plan"
    /\ caller = "tf_makegraph"
    /\ pc = "tf_makegraph"
    /\ Idle

SpecImplied == InitImplied /\ [][Next]_vars

----------------------------------------------------------------------------
(* Properties of add_vpc_implied_relations, checked under SpecImplied *)

\* the address ranges of two cidr_block values have an address in common
ranges_share(a, b) ==
    /\ addr_leq(network_of(a), broadcast_of(b))
    /\ addr_leq(network_of(b), broadcast_of(a))

\* the subnets, in key order, whose range overlaps the range of vpc k
overlapping_subnets(k) ==
    SelectSeq(subnet_resources(graph_keys),
              LAMBDA sn : ranges_share(meta_data[sn]["cidr_block"],
                                       meta_data[k]["cidr_block"]))

\* C11: a call of add_vpc_implied_relations that returns appends to
\* graphdict[V], for every vpc V, exactly the subnets whose cidr_block range
\* overlaps the range of V (also those V already has an edge to), in key
\* order; every other adjacency list, the keys, their order and meta_data
\* are unchanged.
C11_ImpliedRelationsFrame ==
    [][(pc = "implied" /\ pc' = "validate") =>
         /\ meta_data' = meta_data
         /\ graph_keys' = graph_keys
         /\ DOMAIN graphdict' = DOMAIN graphdict
         /\ \A k \in DOMAIN graphdict :
               graphdict'[k] =
                 IF k \in Range(vpc_resources(graph_keys))
                 THEN graphdict[k] \o overlapping_subnets(k)
                 ELSE graphdict[k]]_vars

\* the call has returned on a graph where vpc v already had an explicit
\* edge to subnet s: s is there twice, the non-overlapping t is not there
C11_Witness ==
    /\ pc = "validate"
    /\ AWS_VPC_V \in DOMAIN graphdict
    /\ AWS_SUBNET_T \in DOMAIN graphdict
    /\ graphdict[AWS_VPC_V] = <<AWS_SUBNET_S, AWS_SUBNET_S>>

----------------------------------------------------------------------------
(* Provider runs: tf_makegraph on plans of resources of several providers *)

AZURERM_RG_G == <<"azurerm_", "rg", ".", "g">>
GOOGLE_X_A == <<"google_", "x", ".", "a">>
NULL_RESOURCE_N == <<"null_", "resource", ".", "n">>

ProviderPlanUniverse ==
    << Managed(AZURERM_RG_G, IndexAbsent, A1),
       Managed(NULL_RESOURCE_N, IndexAbsent, A1),
       Managed(AWS_Y_B, IndexAbsent, A1),
       Managed(GOOGLE_X_A, IndexAbsent, A1) >>

ProviderLabelUniverse == <<AZURERM_RG_G, NULL_RESOURCE_N, AWS_Y_B, GOOGLE_X_A>>

InitProviders ==
    /\ PlanAndGraph(ProviderPlanUniverse, ProviderLabelUniverse)
    /\ tf_resources_created = plan_input
    /\ statefile = <<>>
    /\ source = "plan"
    /\ caller = "tf_makegraph"
    /\ pc = "tf_makegraph"
    /\ Idle

SpecProviders == InitProviders /\ [][Next]_vars

----------------------------------------------------------------------------
(* Properties of the validation, checked under SpecProviders *)

\* the resource type prefixes of the providers the error message names
SupportedPrefixes == {"aws_", "azurerm_", "google_"}

supported_keys == {k \in Range(graph_keys) : get_no_module_name(k)[1] \in SupportedPrefixes}

\* C12: the validation ends the run with the empty-domain error exactly when
\* no node key is a resource of a supported provider (AWS, Azure, Google),
\* and returns the graph otherwise.
C12_ValidatorExactness ==
    /\ pc = "exited" => supported_keys = {}
    /\ pc = "done" => supported_keys # {}

\* C13: when the validation finds no node of a supported provider, the
\* process ends with a non-zero exit status.
C13_ExitNonZero ==
    (pc = "exited" /\ supported_keys = {}) => exit_status > 0

----------------------------------------------------------------------------
(* Repeated runs: tf_makegraph called again on the tfdata it returned *)

\* the caller passes the tfdata a call returned to tf_makegraph once more;
\* the locals of the finished call are gone
Rerun ==
    /\ pc = "done"
    /\ caller = "tf_makegraph"
    /\ Len(earlier_runs) < MaxCalls - 1
    /\ earlier_runs' = Append(earlier_runs,
                              [graphdict |-> graphdict, graph_keys |-> graph_keys])
    /\ pc' = "tf_makegraph"
    /\ outcome' = "none"
    /\ gvid_table' = <<>>
    /\ iter_nodes' = <<>>
    /\ ni' = 0
    /\ node' = <<>>
    /\ node_id' = 0
    /\ ei' = 0
    /\ UNCHANGED <<caller, source, cloud, plan_input, statefile,
                   tf_resources_created, tfgraph, graphdict, graph_keys,
                   meta_data, node_list, setup_i, exit_status>>

InitRerun ==
    /\ \/ PlanAndGraph(EdgePlanUniverse, EdgeLabelUniverse)
       \/ PlanAndGraph(ImpliedPlanUniverse, ImpliedLabelUniverse)
    /\ tf_resources_created = plan_input
    /\ statefile = <<>>
    /\ source = "plan"
    /\ caller = "tf_makegraph"
    /\ pc = "tf_makegraph"
    /\ Idle

NextRerun ==
    \/ TfMakegraph
    \/ SetupGraphBegin
    \/ SetupRecord
    \/ SetupGraphReturn
    \/ BuildGvidTable
    \/ NodeLookup
    \/ EdgeStep
    \/ AddVpcImpliedRelations
    \/ Validate
    \/ Rerun

SpecRerun == InitRerun /\ [][NextRerun]_vars

----------------------------------------------------------------------------
(* Properties of repeated runs, checked under SpecRerun *)

\* C14: a call of tf_makegraph on the tfdata an earlier call returned ends as
\* that call did, with the same graphdict: the same keys in the same order
\* and, for every key, the same edges in the same order.
C14_RerunSameGraph ==
    Len(earlier_runs) > 0 =>
        /\ pc \notin {"crashed", "exited"}
        /\ pc = "done" =>
              \A r \in 1..Len(earlier_runs) :
                 /\ earlier_runs[r].graph_keys = graph_keys
                 /\ earlier_runs[r].graphdict = graphdict

\* the second call has returned a graph with an explicit and an implied edge
C14_Witness ==
    /\ pc = "done"
    /\ Len(earlier_runs) = 1
    /\ AWS_VPC_V \in DOMAIN graphdict
    /\ graphdict[AWS_VPC_V] = <<AWS_SUBNET_S, AWS_SUBNET_S>>

----------------------------------------------------------------------------
(* Properties of the module attribute and of the input of setup_graph,
   checked under SpecNodes *)

\* C17: after setup_graph, the attributes of a managed record whose address
\* contains "module." have "module" equal to everything that follows the
\* leading "module." of its module_address, and the attributes of a record
\* whose address has no "module." have no "module".
C17_ModulePath ==
    pc = "done" =>
        \A i \in 1..Len(plan_input) :
           LET object == plan_input[i]
               key == node_key(object)
           IN (object.mode = "managed" /\ last_record_of(plan_input, key) = object) =>
                 IF contains(object.address, MODULE_DOT)
                 THEN /\ "module" \in DOMAIN meta_data[key]
                      /\ meta_data[key]["module"] =
                            StrVal(after_first(object.module_address, MODULE_DOT))
                 ELSE "module" \notin DOMAIN meta_data[key]

\* C18: when setup_graph has returned, every record of tf_resources_created
\* is what it was before the call.
C18_InputUnchanged ==
    (pc = "done" /\ outcome = "returned") => tf_resources_created = plan_input

----------------------------------------------------------------------------
(* Prefix runs: tf_makegraph on resources whose names start alike *)

AWS_SUBNET_A == <<"aws_", "subnet", ".", "a">>
AWS_SUBNET_AB == <<"aws_", "subnet", ".", "a", "b">>

PrefixPlanUniverse ==
    << Managed(AWS_Y_B, IndexAbsent, A1),
       Managed(AWS_SUBNET_AB, IndexAbsent, CidrAttrs(CidrVal(10, 0, 1, 0, 24))),
       Managed(AWS_SUBNET_A, IndexInt(0), CidrAttrs(CidrVal(10, 0, 2, 0, 24))) >>

PrefixLabelUniverse == <<AWS_Y_B, AWS_SUBNET_AB, AWS_SUBNET_A>>

InitPrefix ==
    /\ PlanAndGraph(PrefixPlanUniverse, PrefixLabelUniverse)
    /\ tf_resources_created = plan_input
    /\ statefile = <<>>
    /\ source = "plan"
    /\ caller = "tf_makegraph"
    /\ pc = "tf_makegraph"
    /\ Idle

SpecPrefix == InitPrefix /\ [][Next]_vars

----------------------------------------------------------------------------
(* Properties of the prefix substitution, checked under SpecPrefix *)

\* key is the label followed by an instance suffix, "~<n>" or "[<key>]"
is_instance_of(key, label) ==
    /\ startswith(key, label)
    /\ Len(key) > Len(label)
    /\ key[Len(label) + 1] \in {"~", "["}

\* C19: when an edge is taken whose tail label is not a node key and is the
\* prefix of exactly one node key, the key that becomes the edge's endpoint
\* is an instance of the labelled resource.
C19_SubstituteIsInstance ==
    [][(/\ pc = "edge_loop"
        /\ edge_taken
        /\ tail_label \notin DOMAIN graphdict
        /\ Cardinality({k \in DOMAIN graphdict : startswith(k, tail_label)}) = 1) =>
         LET old(k) == IF k \in DOMAIN graphdict THEN graphdict[k] ELSE <<>>
             grown == {k \in DOMAIN graphdict' : Len(graphdict'[k]) > Len(old(k))}
             endpoints ==
                 IF first_segment(tail_label) \in REVERSE_ARROW_LIST
                 THEN grown
                 ELSE {graphdict'[k][Len(graphdict'[k])] : k \in grown}
         IN /\ endpoints # {}
            /\ \A k \in endpoints : is_instance_of(k, tail_label)]_vars

----------------------------------------------------------------------------
(* Secrets manager runs: calls of the public API of both modules on a team's
   two secrets *)

PG_TOKEN == <<"pg", PyStr("token")>>
S3_LOGIN == <<"s3", PyDict("user-password")>>

\* what a secret holds before the first call
InitialSecrets ==
    {NoSecret, EmptySecret, OtherText, json_dumps(<<>>), json_dumps(<<PG_TOKEN>>),
     json_dumps(<<S3_LOGIN, PG_TOKEN>>), PyDictText(<<S3_LOGIN>>)}

InitSecrets ==
    /\ secret_store \in [SecretIds -> InitialSecrets]
    /\ domain_role \in BOOLEAN
    /\ api_call = NoCall
    /\ clients = NoClients
    /\ ecs_clusters = <<>>
    /\ now = 1
    /\ ReaperIdle
    /\ pc = "none"
    /\ caller = "none"
    /\ source = "none"
    /\ plan_input = <<>>
    /\ statefile = <<>>
    /\ tf_resources_created = <<>>
    /\ tfgraph = EmptyGraph
    /\ TfdataIdle

NextSecrets == ListConnections \/ GetConnection \/ PutConnection \/ DeleteConnection

SpecSecrets == InitSecrets /\ [][NextSecrets]_vars

----------------------------------------------------------------------------
(* Properties of the secrets managers, checked under SpecSecrets *)

\* two outcomes of get_connection are the same
same_outcome(a, b) == a.err = b.err /\ (a.err = "" => a.value = b.value)

\* get_connection returns value
returns_value(r, value) == r.err = "" /\ r.value = value

\* C15: when put_connection(name, v) has returned, get_connection(name) on
\* the same scope returns v and get_connection of every other name is as it
\* was; when delete_connection(name) has returned, get_connection(name)
\* raises KeyError, every other name is as it was, and a secret that held a
\* JSON object or the deleted entry holds a JSON object (the empty one when
\* no entry is left).
C15_PutGetDelete ==
    [][LET c == api_call'
           get(store, n) == get_connection(c.module, store, n, c.shared)
           others_kept ==
               \A n \in ConnectionNames \ {c.name} :
                  same_outcome(get(secret_store', n), get(secret_store, n))
           before == secret_store[secret_path(c.module, c.shared)]
           after == secret_store'[secret_path(c.module, c.shared)]
       IN /\ (c.op = "put" /\ c.err = "") =>
               /\ returns_value(get(secret_store', c.name), c.value)
               /\ others_kept
          /\ (c.op = "delete" /\ c.err = "") =>
               /\ get(secret_store', c.name).err = "KeyError"
               /\ others_kept
               /\ (before.kind = "json" \/ get(secret_store, c.name).err = "") =>
                     after.kind = "json"]_vars

\* put_connection of the module-level API has returned on a secret that
\* held another entry, and both entries are there
C15_Witness ==
    /\ api_call.module = V1
    /\ api_call.op = "put"
    /\ api_call.err = ""
    /\ api_call.name = "s3"
    /\ secret_store[secret_path(V1, api_call.shared)] =
         json_dumps(<<PG_TOKEN, <<"s3", api_call.value>>>>)

\* C16: on a scope whose secret does not exist yet, list_connections returns
\* the empty map, and put_connection(name, v) returns, after which
\* get_connection(name) returns v, in both modules.
C16_FirstPutCreates ==
    [][LET c == api_call'
           before == secret_store[secret_path(c.module, c.shared)]
       IN before.kind = "none" =>
            /\ c.op = "list" => (c.err = "" /\ c.result = <<>>)
            /\ c.op = "put" =>
                 /\ c.err = ""
                 /\ returns_value(get_connection(c.module, secret_store', c.name,
                                                 c.shared), c.value)]_vars

----------------------------------------------------------------------------
(* Reaper runs: lambda_handler on clusters of services and running tasks *)

SHINY_IMAGE == <<"repo/", "Shiny", "-app">>
RUNTIME_IMAGE == <<"repo/", "app-runtime", ":1">>
UPPER_RUNTIME_IMAGE == <<"repo/", "APP-RUNTIME", ":1">>
NGINX_IMAGE == <<"nginx">>

Plain(image) == Container("", "", "", image)
Tag(key, value) == [key |-> key, value |-> value]

\* the running tasks a cluster's tasks are drawn from, in order
TaskUniverse ==
    << Task("old", <<>>, 1, <<Plain(SHINY_IMAGE)>>),
       Task("tagged", <<Tag("sp.mode", "preinit")>>, 1, <<Plain(SHINY_IMAGE)>>),
       Task("labelled", <<>>, 1, <<Plain(NGINX_IMAGE),
                                   Container("", "PreInit", "", SHINY_IMAGE)>>),
       Task("env", <<>>, 1, <<Container("", "", "TRUE", RUNTIME_IMAGE)>>),
       Task("pending", <<>>, 0, <<Plain(SHINY_IMAGE)>>),
       Task("recent", <<Tag("sp.mode", "ondemand")>>, 3, <<Plain(RUNTIME_IMAGE)>>),
       Task("nginx", <<>>, 1, <<Plain(NGINX_IMAGE), Plain(UPPER_RUNTIME_IMAGE)>>),
       Task("middle", <<Tag("team", "preinit")>>, 2, <<Plain(NGINX_IMAGE),
                                                       Plain(RUNTIME_IMAGE)>>) >>

\* the clusters an account's clusters are drawn from, less their tasks: one
\* with two services and three deployments, one without services, one whose
\* service has no deployment
ClusterUniverse ==
    << [name |-> "a", services |-> << <<1>>, <<3, 2>> >>, pool |-> TaskUniverse],
       [name |-> "b", services |-> <<>>, pool |-> SubSeq(TaskUniverse, 1, 2)],
       [name |-> "c", services |-> << <<>> >>, pool |-> SubSeq(TaskUniverse, 1, 1)] >>

\* cluster n of the universe with the running tasks given
cluster_with(n, tasks) ==
    [name |-> ClusterUniverse[n].name, services |-> ClusterUniverse[n].services,
     tasks |-> tasks]

\* the clusters of an account: clusters of the universe, each with running
\* tasks of its pool
IsAccount(clusters) ==
    \E P \in {Q \in SUBSET (1..3) : Cardinality(Q) <= MaxClusters} :
       \E ta \in SubSeqsOf(ClusterUniverse[1].pool, 0, MaxTasks) :
          \E tb \in SubSeqsOf(ClusterUniverse[2].pool, 0, MaxTasks) :
             \E tc \in SubSeqsOf(ClusterUniverse[3].pool, 0, MaxTasks) :
                clusters = pick(<<cluster_with(1, ta), cluster_with(2, tb),
                                  cluster_with(3, tc)>>, P, 3)

InitReaper ==
    /\ IsAccount(ecs_clusters)
    /\ now \in 3..MaxHour
    /\ handler_pc = "start"
    /\ cluster_i = 0
    /\ task_i = 0
    /\ last_deploy_time = DATETIME_MIN
    /\ stop_calls = <<>>
    /\ response = [statusCode |-> 0]
    /\ secret_store = [id \in SecretIds |-> NoSecret]
    /\ domain_role = FALSE
    /\ api_call = NoCall
    /\ clients = NoClients
    /\ pc = "none"
    /\ caller = "none"
    /\ source = "none"
    /\ plan_input = <<>>
    /\ statefile = <<>>
    /\ tf_resources_created = <<>>
    /\ tfgraph = EmptyGraph
    /\ TfdataIdle

NextReaper == LambdaHandler \/ ClusterStep \/ TaskStep \/ HandlerReturn

SpecReaper == InitReaper /\ [][NextReaper]_vars

----------------------------------------------------------------------------
(* Properties of the task reaper, checked under SpecReaper *)

\* the task of a stop_task call
stopped_task(call) ==
    LET cluster == ecs_clusters[CHOOSE i \in 1..Len(ecs_clusters) :
                                   ecs_clusters[i].name = call.cluster]
    IN cluster.tasks[CHOOSE j \in 1..Len(cluster.tasks) :
                        cluster.tasks[j].id = call.task]

\* the deployment times of the services of the cluster of a stop_task call
deployment_times(call) ==
    LET cluster == ecs_clusters[CHOOSE i \in 1..Len(ecs_clusters) :
                                   ecs_clusters[i].name = call.cluster]
    IN UNION {Range(cluster.services[i]) : i \in 1..Len(cluster.services)}

\* a task marked as pre-initialised by a tag, a docker label or PRE_INIT_MODE
marked_preinit(task) ==
    \/ \E i \in 1..Len(task.tags) : task.tags[i] = Tag("sp.mode", "preinit")
    \/ \E i \in 1..Len(task.containers) :
          \/ task.containers[i].sp_mode = "preinit"
          \/ task.containers[i].SP_MODE = "preinit"
          \/ task.containers[i].pre_init_mode = "true"

\* an image of the task names the runtime
runtime_image(task) ==
    \E i \in 1..Len(task.containers) :
       \E j \in 1..Len(task.containers[i].image) :
          task.containers[i].image[j] \in {"app-runtime", "shiny", "Shiny"}

----------------------------------------------------------------------------
(* Concurrent put_connection runs: two clients have called put_connection
   with different names on the same secret *)

\* the calls of the two clients
ClientCall(module, name, shared, value) ==
    [pc |-> "called", module |-> module, name |-> name, shared |-> shared,
     value |-> value, conns |-> <<>>, err |-> ""]

InitClients ==
    /\ secret_store \in [SecretIds -> InitialSecrets]
    /\ domain_role \in BOOLEAN
    /\ api_call = NoCall
    /\ \E m1 \in Modules, m2 \in Modules, s1 \in BOOLEAN, s2 \in BOOLEAN,
          a \in ConnectionNames, b \in ConnectionNames,
          v1 \in SecretValues, v2 \in SecretValues :
         /\ a # b
         /\ secret_path(m1, s1) = secret_path(m2, s2)
         /\ clients = [c \in Clients |-> IF c = 1 THEN ClientCall(m1, a, s1, v1)
                                         ELSE ClientCall(m2, b, s2, v2)]
    /\ ecs_clusters = <<>>
    /\ now = 1
    /\ ReaperIdle
    /\ pc = "none"
    /\ caller = "none"
    /\ source = "none"
    /\ plan_input = <<>>
    /\ statefile = <<>>
    /\ tf_resources_created = <<>>
    /\ tfgraph = EmptyGraph
    /\ TfdataIdle

NextClients == ClientRead \/ ClientWrite \/ ClientCreate

SpecClients == InitClients /\ [][NextClients]_vars

----------------------------------------------------------------------------
(* Properties of concurrent put_connection calls, checked under SpecClients *)

\* both put_connection calls have returned without raising
both_returned == \A c \in Clients : clients[c].pc = "returned" /\ clients[c].err = ""

\* the stored map holds the entry client c wrote
entry_stored(c) ==
    returns_value(get_connection(clients[c].module, secret_store, clients[c].name,
                                 clients[c].shared),
                  clients[c].value)

\* C21: when two put_connection calls with different names on the same
\* scope have both returned, the stored map holds both entries with the
\* values written, whatever the order of the two reads and the two writes.
C21_NoLostUpdate == both_returned => \A c \in Clients : entry_stored(c)

====
